---- MODULE Spec2Model ----
(***************************************************************************)
(* Model of the promotion service (promotionService_codingTest.ts).        *)
(*                                                                         *)
(* A caller builds a Cart and a list of PromotionFormula instances, builds *)
(* a PromotionProcessor from the list and calls process, discountCalcula-  *)
(* tion and processDiscount.  The state is the cart, the processor's       *)
(* Formulas, the outcome of the last call and the first triple that        *)
(* processDiscount returned.                                               *)
(*                                                                         *)
(* JavaScript values are records [t, v].  A finite number is kept exactly, *)
(* in units of 1/Scale: Num(n) is the integer n, and Mul and Div rescale.  *)
(* Every product and quotient the model forms is exact at this resolution  *)
(* (prices, quantities and percentages are integers), so the arithmetic is *)
(* that of the reals; binary rounding of IEEE doubles is not represented.  *)
(* NaN, undefined, functions and objects are values of their own, because  *)
(* a property lookup on an object literal can produce them.                *)
(***************************************************************************)
EXTENDS Integers, Sequences, FiniteSets, TLC

\* ------------------------------------------------------------------ bounds
MaxItems == 2
MaxFormulas == 3

\* Resolution of the exact arithmetic: the divisor of `/ 100`.
Scale == 100

\* ------------------------------------------------------- JavaScript values
Num(n) == [t |-> "number", v |-> n * Scale]
Raw(h) == [t |-> "number", v |-> h]
NaN == [t |-> "NaN", v |-> 0]
Undefined == [t |-> "undefined", v |-> 0]
FunctionValue == [t |-> "function", v |-> 0]
ObjectValue == [t |-> "object", v |-> 0]

IsNumber(x) == x.t = "number"

\* ToNumber: undefined, a function and a plain object all convert to NaN.
ToNumber(x) == IF x.t = "number" THEN x ELSE NaN

\* a + b
Add(a, b) ==
    LET x == ToNumber(a)
        y == ToNumber(b)
    IN  IF IsNumber(x) /\ IsNumber(y) THEN Raw(x.v + y.v) ELSE NaN

\* a - b
Sub(a, b) ==
    LET x == ToNumber(a)
        y == ToNumber(b)
    IN  IF IsNumber(x) /\ IsNumber(y) THEN Raw(x.v - y.v) ELSE NaN

\* a * b
Mul(a, b) ==
    LET x == ToNumber(a)
        y == ToNumber(b)
    IN  IF IsNumber(x) /\ IsNumber(y) THEN Raw((x.v * y.v) \div Scale) ELSE NaN

\* a / b, for a non-zero divisor
Div(a, b) ==
    LET x == ToNumber(a)
        y == ToNumber(b)
    IN  IF IsNumber(x) /\ IsNumber(y) /\ y.v # 0
        THEN Raw((x.v * Scale) \div y.v)
        ELSE NaN

\* a >= b: any comparison with NaN is false
Ge(a, b) ==
    LET x == ToNumber(a)
        y == ToNumber(b)
    IN  IsNumber(x) /\ IsNumber(y) /\ x.v >= y.v

\* ToBoolean: 0, NaN and undefined are falsy, functions and objects truthy
Truthy(x) ==
    CASE x.t = "number" -> x.v # 0
      [] x.t = "NaN" -> FALSE
      [] x.t = "undefined" -> FALSE
      [] OTHER -> TRUE

\* a || b
Or(a, b) == IF Truthy(a) THEN a ELSE b

\* ------------------------------------------------------------ the cart
\* Cart.promoCode is optional: NoCode is the absent property.
NoCode == [present |-> FALSE, s |-> ""]
Code(c) == [present |-> TRUE, s |-> c]

Item(p, n, pr, q) == [productId |-> p, name |-> n, price |-> pr, quantity |-> q]

\* cart.items.reduce((sum, item) => sum + item.price * item.quantity, 0)
RECURSIVE ReduceItems(_, _)
ReduceItems(items, sum) ==
    IF items = <<>>
    THEN sum
    ELSE ReduceItems(Tail(items),
                     Add(sum, Mul(Num(Head(items).price), Num(Head(items).quantity))))

ItemsTotal(c) == ReduceItems(c.items, Num(0))

\* cart.items.find(item => item.productId === productId): the first match,
\* as a one-element sequence, or <<>> for undefined
RECURSIVE Find(_, _)
Find(items, productId) ==
    IF items = <<>>
    THEN <<>>
    ELSE IF Head(items).productId = productId
         THEN <<Head(items)>>
         ELSE Find(Tail(items), productId)

\* ------------------------------------------------------------ the rules
CartTotalFormula(threshold, discountPercent) ==
    [kind |-> "CartTotalFormula", threshold |-> threshold,
     discountPercent |-> discountPercent]

ProductFormula(productId, fixedDiscount) ==
    [kind |-> "ProductFormula", productId |-> productId,
     fixedDiscount |-> fixedDiscount]

\* The code table is a field initialised with an object literal.
PromoCodeFormula ==
    [kind |-> "PromoCodeFormula", promoCodes |-> [SUMMER10 |-> 10, VIP20 |-> 20]]

\* Properties every object literal inherits from Object.prototype: methods,
\* and the __proto__ accessor that yields Object.prototype itself.
PrototypeMethods ==
    {"constructor", "hasOwnProperty", "isPrototypeOf", "propertyIsEnumerable",
     "toLocaleString", "toString", "valueOf"}

\* obj[key]: an own property, else a property of Object.prototype, else
\* undefined
Lookup(obj, key) ==
    IF key \in DOMAIN obj THEN Num(obj[key])
    ELSE IF key \in PrototypeMethods THEN FunctionValue
    ELSE IF key = "__proto__" THEN ObjectValue
    ELSE Undefined

\* cart.promoCode || ''
CodeOrEmpty(c) == IF c.promoCode.present THEN c.promoCode.s ELSE ""

\* Variant: the threshold itself does not qualify (> for >=).
CartTotalFormula_process_strict(f, c) ==
    LET total == ItemsTotal(c)
    IN  IF Ge(total, Num(f.threshold)) /\ total # Num(f.threshold)
        THEN Mul(total, Div(Num(f.discountPercent), Num(100)))
        ELSE Num(0)

CartTotalFormula_process(f, c) ==
    LET total == ItemsTotal(c)
    IN  IF Ge(total, Num(f.threshold))
        THEN Mul(total, Div(Num(f.discountPercent), Num(100)))
        ELSE Num(0)

\* Variant: every matching item contributes (filter for find).
RECURSIVE SumMatching(_, _, _)
SumMatching(items, f, sum) ==
    IF items = <<>>
    THEN sum
    ELSE SumMatching(Tail(items), f,
            IF Head(items).productId = f.productId
            THEN Add(sum, Mul(Num(f.fixedDiscount), Num(Head(items).quantity)))
            ELSE sum)

ProductFormula_process_all(f, c) == SumMatching(c.items, f, Num(0))

ProductFormula_process(f, c) ==
    LET item == Find(c.items, f.productId)
    IN  IF item # <<>>
        THEN Mul(Num(f.fixedDiscount), Num(item[1].quantity))
        ELSE Num(0)

\* Variant: the table's percent is returned as a flat amount.
PromoCodeFormula_process_flat(f, c) ==
    ToNumber(Or(Lookup(f.promoCodes, CodeOrEmpty(c)), Num(0)))

PromoCodeFormula_process(f, c) ==
    LET percent == Or(Lookup(f.promoCodes, CodeOrEmpty(c)), Num(0))
        total == ItemsTotal(c)
    IN  Mul(total, Div(percent, Num(100)))

\* Formula.process(cart), dispatched on the class of the rule
process(f, c) ==
    CASE f.kind = "CartTotalFormula" -> CartTotalFormula_process(f, c)
      [] f.kind = "ProductFormula" -> ProductFormula_process(f, c)
      [] f.kind = "PromoCodeFormula" -> PromoCodeFormula_process(f, c)

\* ------------------------------------------------------------ the engine
\* this.Formulas.reduce((sum, Formula) => sum + Formula.process(cart), 0)
RECURSIVE ReduceFormulas(_, _, _)
ReduceFormulas(fs, c, sum) ==
    IF fs = <<>>
    THEN sum
    ELSE ReduceFormulas(Tail(fs), c, Add(sum, process(Head(fs), c)))

\* Variant: only the best rule applies (the maximum for the sum).
RECURSIVE ReduceBest(_, _, _)
ReduceBest(fs, c, best) ==
    IF fs = <<>>
    THEN best
    ELSE LET d == process(Head(fs), c)
         IN  ReduceBest(Tail(fs), c, IF Ge(d, best) THEN d ELSE best)

discountCalculation_best(fs, c) == ReduceBest(fs, c, Num(0))

discountCalculation(fs, c) == ReduceFormulas(fs, c, Num(0))

\* Variant: the subtraction the wrong way round.
processDiscount_swapped(fs, c) ==
    LET total == ItemsTotal(c)
        discount == discountCalculation(fs, c)
    IN  [total |-> total, discount |-> discount, final |-> Sub(discount, total)]

\* Variant: final is raised to 0 (Math.max(0, total - discount)).
processDiscount_clamped(fs, c) ==
    LET total == ItemsTotal(c)
        discount == discountCalculation(fs, c)
        final == Sub(total, discount)
    IN  [total |-> total, discount |-> discount,
         final |-> IF IsNumber(final) /\ final.v < 0 THEN Num(0) ELSE final]

processDiscount(fs, c) ==
    LET total == ItemsTotal(c)
        discount == discountCalculation(fs, c)
    IN  [total |-> total, discount |-> discount, final |-> Sub(total, discount)]

\* ------------------------------------------------------- the sample wiring
SampleCart ==
    [items |-> <<Item("A1", "Shoes", 100, 2), Item("B2", "Hat", 50, 1)>>,
     promoCode |-> Code("VIP20")]

SampleFormulas ==
    <<CartTotalFormula(150, 5), ProductFormula("A1", 10), PromoCodeFormula>>

\* ------------------------------------------------------------ input sets
SeqsUpTo(S, n) == UNION {[1..k -> S] : k \in 0..n}

\* Carts and rule lists handed to an engine: the sample's items and rules,
\* and a marked-down unit (price 5, below the per-unit discount of 10), an
\* absent code and an inherited property name.
EngineItems ==
    {Item("A1", "Shoes", 100, 2), Item("B2", "Hat", 50, 1), Item("A1", "Shoes", 5, 1)}
EngineCodes == {NoCode, Code("VIP20"), Code("toString")}
EngineCarts ==
    {[items |-> is, promoCode |-> pc] :
        is \in SeqsUpTo(EngineItems, MaxItems), pc \in EngineCodes}
EngineFormulas == {SampleFormulas[i] : i \in 1..Len(SampleFormulas)}
EngineLists == SeqsUpTo(EngineFormulas, MaxFormulas)

\* Carts and rules for the calls on one rule.
PriceOf == [A1 |-> 100, B2 |-> 50]
NameOf == [A1 |-> "Shoes", B2 |-> "Hat"]
Quantities == 0..2
FormulaItems ==
    {Item(p, NameOf[p], PriceOf[p], q) : p \in DOMAIN PriceOf, q \in Quantities}
FormulaCodes ==
    {NoCode, Code(""), Code("VIP20"), Code("SUMMER10"), Code("WINTER5"),
     Code("toString"), Code("__proto__")}
FormulaCarts ==
    {[items |-> is, promoCode |-> pc] :
        is \in SeqsUpTo(FormulaItems, MaxItems), pc \in FormulaCodes}
Thresholds == {0, 150}
Percents == {0, 5, 100}
FixedDiscounts == {0, 10}
SingleFormulas ==
    {CartTotalFormula(t, p) : t \in Thresholds, p \in Percents}
    \cup {ProductFormula(p, d) : p \in DOMAIN PriceOf, d \in FixedDiscounts}
    \cup {PromoCodeFormula}

\* ------------------------------------------------------------------ state
VARIABLES cart, Formulas, result, first

vars == <<cart, Formulas, result, first>>

NoResult == [op |-> "none"]
NoFirst == [set |-> FALSE, between |-> FALSE]

\* What the caller has seen: the first triple processDiscount returned, and
\* whether another call was made since.
Seen(op, ret) ==
    IF ~first.set
    THEN IF op = "processDiscount"
         THEN [set |-> TRUE, between |-> FALSE, ret |-> ret]
         ELSE first
    ELSE IF op = "processDiscount" THEN first ELSE [first EXCEPT !.between = TRUE]

Init ==
    /\ cart \in EngineCarts
    /\ Formulas \in EngineLists
    /\ result = NoResult
    /\ first = NoFirst

InitFormula ==
    /\ cart \in FormulaCarts
    /\ Formulas \in {<<f>> : f \in SingleFormulas}
    /\ result = NoResult
    /\ first = NoFirst

\* Formulas[i].process(cart), for each class of rule
CallProcess(i, ret) ==
    /\ result' = [op |-> "process", rule |-> i, ret |-> ret]
    /\ first' = Seen("process", ret)
    /\ UNCHANGED <<cart, Formulas>>

CartTotalProcess ==
    \E i \in 1..Len(Formulas) :
        /\ Formulas[i].kind = "CartTotalFormula"
        /\ CallProcess(i, CartTotalFormula_process(Formulas[i], cart))

ProductProcess ==
    \E i \in 1..Len(Formulas) :
        /\ Formulas[i].kind = "ProductFormula"
        /\ CallProcess(i, ProductFormula_process(Formulas[i], cart))

PromoCodeProcess ==
    \E i \in 1..Len(Formulas) :
        /\ Formulas[i].kind = "PromoCodeFormula"
        /\ CallProcess(i, PromoCodeFormula_process(Formulas[i], cart))

\* engine.discountCalculation(cart)
DiscountCalculation ==
    LET ret == discountCalculation(Formulas, cart)
    IN  /\ result' = [op |-> "discountCalculation", ret |-> ret]
        /\ first' = Seen("discountCalculation", ret)
        /\ UNCHANGED <<cart, Formulas>>

\* Variant: processDiscount uses the promo code up.
ProcessDiscount_consuming ==
    LET ret == processDiscount(Formulas, cart)
    IN  /\ result' = [op |-> "processDiscount", ret |-> ret]
        /\ first' = Seen("processDiscount", ret)
        /\ cart' = [cart EXCEPT !.promoCode = NoCode]
        /\ UNCHANGED Formulas

\* engine.processDiscount(cart)
ProcessDiscount ==
    LET ret == processDiscount(Formulas, cart)
    IN  /\ result' = [op |-> "processDiscount", ret |-> ret]
        /\ first' = Seen("processDiscount", ret)
        /\ UNCHANGED <<cart, Formulas>>

Next ==
    \/ CartTotalProcess
    \/ ProductProcess
    \/ PromoCodeProcess
    \/ DiscountCalculation
    \/ ProcessDiscount

Spec == Init /\ [][Next]_vars

SpecFormula == InitFormula /\ [][Next]_vars

\* ------------------------------------------------------------- properties
\* The sums the claims speak of, in integer arithmetic over the state.

\* sum of price * quantity over the items, in whole units
RECURSIVE Sigma(_)
Sigma(items) ==
    IF Len(items) = 0
    THEN 0
    ELSE Sigma(SubSeq(items, 1, Len(items) - 1))
         + items[Len(items)].price * items[Len(items)].quantity

\* the i-th configured rule's own answer for the cart
Contribution(i) == process(Formulas[i], cart)

AllNumbers == \A i \in 1..Len(Formulas) : IsNumber(Contribution(i))

\* sum of the first n contributions, in units of 1/Scale
RECURSIVE SumTo(_)
SumTo(n) == IF n = 0 THEN 0 ELSE SumTo(n - 1) + Contribution(n).v

ExpectedDiscount == IF AllNumbers THEN Raw(SumTo(Len(Formulas))) ELSE NaN

CalledOn(kind) ==
    /\ result.op = "process"
    /\ Formulas[result.rule].kind = kind

\* C1: processDiscount returns total = the sum of price * quantity over the
\* items, discount = discountCalculation(cart) and final = total - discount.
C1_ProcessDiscountTriple ==
    result.op = "processDiscount" =>
        LET r == result.ret
        IN  /\ r.total = Raw(Scale * Sigma(cart.items))
            /\ r.discount = discountCalculation(Formulas, cart)
            /\ r.final = (IF IsNumber(r.discount)
                          THEN Raw(r.total.v - r.discount.v)
                          ELSE NaN)

C1_Witness ==
    /\ result.op = "processDiscount"
    /\ Len(cart.items) = 2
    /\ cart.items[1] # cart.items[2]
    /\ Len(Formulas) > 0
    /\ IsNumber(result.ret.discount)
    /\ result.ret.discount.v > 0
    /\ result.ret.final.v > 0

\* C2: the discount is the sum of rule.process(cart) over every configured
\* rule, each counted once; with no rule it is 0 and final equals total.
C2_DiscountIsSumOfRules ==
    /\ result.op = "discountCalculation" => result.ret = ExpectedDiscount
    /\ result.op = "processDiscount" =>
        /\ result.ret.discount = ExpectedDiscount
        /\ Formulas = <<>> =>
            /\ result.ret.discount = Num(0)
            /\ result.ret.final = result.ret.total

C2_Witness ==
    /\ result.op = "discountCalculation"
    /\ Len(Formulas) = 3
    /\ Formulas[1] = Formulas[3]
    /\ Formulas[1] # Formulas[2]
    /\ \A i \in 1..3 : IsNumber(Contribution(i)) /\ Contribution(i).v > 0
    /\ result.ret = Raw(2 * Contribution(1).v + Contribution(2).v)

\* C3: CartTotalFormula.process returns cartTotal * discountPercent / 100
\* when cartTotal >= threshold (equality qualifies) and 0 when it is below.
C3_ThresholdRule ==
    CalledOn("CartTotalFormula") =>
        LET f == Formulas[result.rule]
            cartTotal == Sigma(cart.items)
        IN  IF cartTotal >= f.threshold
            THEN result.ret = Raw((cartTotal * f.discountPercent * Scale) \div 100)
            ELSE result.ret = Num(0)

C3_Witness ==
    /\ CalledOn("CartTotalFormula")
    /\ Sigma(cart.items) = Formulas[result.rule].threshold
    /\ Sigma(cart.items) = 150
    /\ Formulas[result.rule].discountPercent = 5
    /\ result.ret = Raw(750)

\* C4: PromoCodeFormula.process returns 0 for an absent, empty or unknown
\* code and cartTotal * percent / 100 for a code of the table.
C4_UnknownCodeIsZero ==
    CalledOn("PromoCodeFormula") =>
        LET table == Formulas[result.rule].promoCodes
            code == cart.promoCode
        IN  IF code.present /\ code.s \in DOMAIN table
            THEN result.ret =
                    Raw((Sigma(cart.items) * table[code.s] * Scale) \div 100)
            ELSE result.ret = Num(0)

\* C5: ProductFormula.process returns 0 when no item has the productId, and
\* otherwise fixedDiscount * quantity of the first matching item only.
Matches(productId) ==
    {i \in 1..Len(cart.items) : cart.items[i].productId = productId}

C5_FirstMatchOnly ==
    CalledOn("ProductFormula") =>
        LET f == Formulas[result.rule]
            m == Matches(f.productId)
        IN  IF m = {}
            THEN result.ret = Num(0)
            ELSE LET i == CHOOSE k \in m : \A j \in m : k <= j
                 IN  result.ret =
                        Raw(f.fixedDiscount * cart.items[i].quantity * Scale)

C5_Witness ==
    /\ CalledOn("ProductFormula")
    /\ Formulas[result.rule].fixedDiscount = 10
    /\ Matches(Formulas[result.rule].productId) = {1, 2}
    /\ cart.items[1].quantity = 1
    /\ cart.items[2].quantity = 2
    /\ result.ret = Num(10)

\* C6: the sample cart under the sample rules gives total 250, discount 82.5
\* and final 167.5.
SampleCall ==
    /\ cart = SampleCart
    /\ Formulas = SampleFormulas
    /\ result.op = "processDiscount"

C7_DocumentedOutput ==
    SampleCall =>
        result.ret = [total |-> Num(250), discount |-> Num(55), final |-> Num(195)]

\* C8: when the rules' contributions sum to more than the cart total, final
\* is strictly negative and still total - discount.
Exceeds == AllNumbers /\ SumTo(Len(Formulas)) > Scale * Sigma(cart.items)

C8_NoClamping ==
    (result.op = "processDiscount" /\ Exceeds) =>
        /\ IsNumber(result.ret.final)
        /\ result.ret.final.v < 0
        /\ result.ret.final.v = result.ret.total.v - result.ret.discount.v
        /\ result.ret.discount.v > result.ret.total.v

C8_Witness ==
    /\ result.op = "processDiscount"
    /\ Exceeds
    /\ Sigma(cart.items) > 0
    /\ result.ret.final.v < 0

\* C9: with non-negative prices, quantities and rule configuration, every
\* rule's process and discountCalculation return a non-negative number.
NonNegativeInputs ==
    /\ \A i \in 1..Len(cart.items) :
          cart.items[i].price >= 0 /\ cart.items[i].quantity >= 0
    /\ \A i \in 1..Len(Formulas) :
          LET f == Formulas[i]
          IN  CASE f.kind = "CartTotalFormula" -> f.discountPercent \in 0..100
                [] f.kind = "ProductFormula" -> f.fixedDiscount >= 0
                [] f.kind = "PromoCodeFormula" ->
                      \A k \in DOMAIN f.promoCodes : f.promoCodes[k] >= 0

C9_NonNegativeDiscount ==
    (NonNegativeInputs /\ result.op \in {"process", "discountCalculation"}) =>
        /\ IsNumber(result.ret)
        /\ result.ret.v >= 0

\* C10: no call changes the cart, a rule's configuration or the rule list,
\* and processDiscount returns again the triple it returned the first time.
C10_CallsLeaveInputsAlone ==
    [][/\ cart' = cart
       /\ Formulas' = Formulas
       /\ (first.set /\ result'.op = "processDiscount") => result'.ret = first.ret
      ]_vars

C10_Witness ==
    /\ first.set
    /\ first.between
    /\ result.op = "processDiscount"
    /\ result.ret = first.ret
    /\ cart = SampleCart
    /\ Formulas = SampleFormulas

====
